---- MODULE Spec2Model ----
(***************************************************************************)
(* A model of src/main.py: the batch driver process_multiple_pdfs_to_csv   *)
(* of PdfOcrProcessor, its page pipeline, and the text helpers             *)
(* extract_english_khmer and clean_line.                                   *)
(*                                                                         *)
(* Texts are sequences of one-character strings, so that every string      *)
(* operation of the source (strip, lower, capitalize, splitlines, join,    *)
(* substring search, the three regular expressions) is computed and not    *)
(* assumed.  The alphabet is ASCII, control characters included, and the   *)
(* white space outside ASCII, each such character written by its name      *)
(* ("U+00A0").  Khmer content is written with Latin letters: the code      *)
(* never inspects the script of a character, only whether it is a letter,  *)
(* a line break or white space.                                            *)
(***************************************************************************)
EXTENDS Integers, Sequences, FiniteSets, TLC

(***************************************************************************)
(* Bounds of the model.                                                    *)
(***************************************************************************)
NumDocs == 2
MaxRows == 2

(***************************************************************************)
(* Program constants.                                                      *)
(***************************************************************************)
MaxPagesCap == 20
RamThreshold == 85
MinLineLen == 3
StatusOk == 200

(***************************************************************************)
(* Characters and Python's string primitives.                              *)
(***************************************************************************)
Uppers ==
    <<"A","B","C","D","E","F","G","H","I","J","K","L","M",
      "N","O","P","Q","R","S","T","U","V","W","X","Y","Z">>
Lowers ==
    <<"a","b","c","d","e","f","g","h","i","j","k","l","m",
      "n","o","p","q","r","s","t","u","v","w","x","y","z">>
UpperSet == {Uppers[k] : k \in 1..26}
LowerSet == {Lowers[k] : k \in 1..26}

\* str.lower() and str.upper() on one character
Lower(c) ==
    IF c \in UpperSet THEN Lowers[CHOOSE k \in 1..26 : Uppers[k] = c] ELSE c
Upper(c) ==
    IF c \in LowerSet THEN Uppers[CHOOSE k \in 1..26 : Lowers[k] = c] ELSE c

\* str.lower()
LowerStr(s) == [k \in 1..Len(s) |-> Lower(s[k])]

\* str.capitalize(): first character upper-cased, the rest lower-cased
Capitalize(s) ==
    [k \in 1..Len(s) |-> IF k = 1 THEN Upper(s[k]) ELSE Lower(s[k])]

\* the control characters \x0b, \x1c, \x1d, \x1e and \x1f
VT == ""
FS == ""
GS == ""
RS == ""
US == ""

\* the characters for which str.isspace() holds
AsciiSpaces == {" ", "\t", "\n", VT, "\f", "\r", FS, GS, RS, US}
UnicodeSpaces ==
    {"U+0085", "U+00A0", "U+1680", "U+2000", "U+2001", "U+2002", "U+2003",
     "U+2004", "U+2005", "U+2006", "U+2007", "U+2008", "U+2009", "U+200A",
     "U+2028", "U+2029", "U+202F", "U+205F", "U+3000"}
WhiteSpace == AsciiSpaces \cup UnicodeSpaces

\* the line boundaries of str.splitlines()
LineBreaks == {"\n", "\r", VT, "\f", FS, GS, RS, "U+0085", "U+2028", "U+2029"}

\* the characters str.strip() removes
IsSpace(c) == c \in WhiteSpace

\* the characters str.splitlines() breaks at
IsLineBreak(c) == c \in LineBreaks

\* a character that the class [\d\W_] of clean_line does NOT match
IsLetter(c) == c \in UpperSet \/ c \in LowerSet

\* str.lstrip(): from the first character that is not white space
LStrip(s) ==
    IF \A k \in 1..Len(s) : IsSpace(s[k]) THEN <<>>
    ELSE SubSeq(s, CHOOSE k \in 1..Len(s) :
                       ~IsSpace(s[k]) /\ \A j \in 1..(k - 1) : IsSpace(s[j]),
                Len(s))

\* str.rstrip(): up to the last character that is not white space
RStrip(s) ==
    IF \A k \in 1..Len(s) : IsSpace(s[k]) THEN <<>>
    ELSE SubSeq(s, 1, CHOOSE k \in 1..Len(s) :
                          ~IsSpace(s[k]) /\ \A j \in (k + 1)..Len(s) : IsSpace(s[j]))

\* str.strip()
Strip(s) == RStrip(LStrip(s))

\* pat occurs in s at position k
MatchesAt(s, pat, k) ==
    /\ k >= 1
    /\ k + Len(pat) - 1 <= Len(s)
    /\ \A j \in 1..Len(pat) : s[k + j - 1] = pat[j]

\* str.startswith
StartsWith(s, pat) == MatchesAt(s, pat, 1)

\* position of the first occurrence of pat in s at or after from, 0 if none
FindFrom(s, pat, from) ==
    LET hits == {k \in from..(Len(s) - Len(pat) + 1) : MatchesAt(s, pat, k)}
    IN  IF hits = {} THEN 0 ELSE CHOOSE k \in hits : \A m \in hits : k <= m

\* the operator "pat in s"
Contains(s, pat) == FindFrom(s, pat, 1) # 0

\* str.splitlines(): breaks at every line boundary, \r\n being one break, and
\* gives no empty last line
\* position of the first line boundary of s at or after from, 0 if none
NextBreak(s, from) ==
    IF \A k \in from..Len(s) : ~IsLineBreak(s[k]) THEN 0
    ELSE CHOOSE k \in from..Len(s) :
             IsLineBreak(s[k]) /\ \A j \in from..(k - 1) : ~IsLineBreak(s[j])

\* the lines of s from position from on
RECURSIVE SplitFrom(_, _)
SplitFrom(s, from) ==
    IF from > Len(s) THEN <<>>
    ELSE IF NextBreak(s, from) = 0 THEN <<SubSeq(s, from, Len(s))>>
    ELSE <<SubSeq(s, from, NextBreak(s, from) - 1)>>
             \o SplitFrom(s, IF MatchesAt(s, <<"\r", "\n">>, NextBreak(s, from))
                             THEN NextBreak(s, from) + 2
                             ELSE NextBreak(s, from) + 1)

SplitLines(s) == SplitFrom(s, 1)

\* "\n".join(lines)
RECURSIVE JoinLines(_)
JoinLines(lines) ==
    IF lines = <<>> THEN <<>>
    ELSE IF Len(lines) = 1 THEN lines[1]
    ELSE lines[1] \o <<"\n">> \o JoinLines(Tail(lines))

\* str(n) for a non-negative integer
RECURSIVE IntToStr(_)
IntToStr(n) ==
    LET Digits == <<"0","1","2","3","4","5","6","7","8","9">>
    IN  IF n < 10 THEN <<Digits[n + 1]>>
        ELSE IntToStr(n \div 10) \o <<Digits[(n % 10) + 1]>>

(***************************************************************************)
(* Literals of the source.                                                 *)
(***************************************************************************)
EnglishMarker ==
    <<"E","n","g","l","i","s","h","_","T","e","x","t",":">>
KhmerMarker ==
    <<"K","h","m","e","r","_","T","e","x","t",":">>
PagePrefix ==
    <<"-","-","-"," ","P","a","g","e">>
TranscriptionNote ==
    <<"H","e","r","e","'","s"," ","a"," ","t","r","a","n","s","c","r","i","p",
      "t","i","o","n"," ","o","f"," ","t","h","e"," ","t","e","x","t">>
NoneToken ==
    <<"n","o","n","e">>
Code429 ==
    <<"4","2","9">>
QuotaWord ==
    <<"q","u","o","t","a">>
ErrorMsgHead ==
    <<"[","E","r","r","o","r"," ","p","r","o","c","e","s","s","i","n","g"," ",
      "p","a","g","e"," ">>
ErrorMsgSep ==
    <<"]",":"," ">>
VerdictEnglish ==
    <<"E","n","g","l","i","s","h">>
VerdictKhmer ==
    <<"K","h","m","e","r">>
VerdictBoth ==
    <<"B","o","t","h">>
VerdictNone ==
    <<"N","o","n","e">>

(***************************************************************************)
(* clean_line and extract_english_khmer.                                   *)
(***************************************************************************)
\* re.sub(r'^[\d\W_]+', '', line): drop the leading run of non-letters
DropLeadingNonLetters(s) ==
    IF \A k \in 1..Len(s) : ~IsLetter(s[k]) THEN <<>>
    ELSE SubSeq(s, CHOOSE k \in 1..Len(s) :
                       IsLetter(s[k]) /\ \A j \in 1..(k - 1) : ~IsLetter(s[j]),
                Len(s))

clean_line(line) == Strip(DropLeadingNonLetters(line))

\* the two kinds of line extract_english_khmer removes
IsBoilerplate(line) ==
    \/ StartsWith(Strip(line), PagePrefix)
    \/ Contains(line, TranscriptionNote)

\* cleaned_text of extract_english_khmer
FilterBoilerplate(text) ==
    JoinLines(SelectSeq(SplitLines(text), LAMBDA l : ~IsBoilerplate(l)))

\* a stripped capture, or "" when it is the token none in any case
SectionValue(capture) ==
    LET raw == Strip(capture)
    IN  IF LowerStr(raw) # NoneToken THEN raw ELSE <<>>

\* a greedy English capture: English_Text:(.*) runs to the end of the text
EnglishCapture_Greedy(cleaned_text) ==
    LET e == FindFrom(LowerStr(cleaned_text), LowerStr(EnglishMarker), 1)
    IN  SubSeq(cleaned_text, e + Len(EnglishMarker), Len(cleaned_text))

\* group 1 of English_Text:(.*?)(Khmer_Text:|$) with DOTALL | IGNORECASE: the
\* lazy group stops at the next Khmer marker, else where $ first matches, which
\* is before a final \n or else at the end of the text
EnglishCapture(cleaned_text) ==
    LET low   == LowerStr(cleaned_text)
        n     == Len(cleaned_text)
        e     == FindFrom(low, LowerStr(EnglishMarker), 1)
        start == e + Len(EnglishMarker)
        k     == FindFrom(low, LowerStr(KhmerMarker), start)
        stop  == IF k # 0 THEN k - 1
                 ELSE IF start <= n /\ cleaned_text[n] = "\n" THEN n - 1
                 ELSE n
    IN  SubSeq(cleaned_text, start, stop)

\* group 1 of Khmer_Text:(.*) with DOTALL | IGNORECASE
KhmerCapture(cleaned_text) ==
    LET k == FindFrom(LowerStr(cleaned_text), LowerStr(KhmerMarker), 1)
    IN  SubSeq(cleaned_text, k + Len(KhmerMarker), Len(cleaned_text))

HasEnglishMarker(s) == Contains(LowerStr(s), LowerStr(EnglishMarker))
HasKhmerMarker(s) == Contains(LowerStr(s), LowerStr(KhmerMarker))

extract_english_khmer(text) ==
    LET cleaned_text == FilterBoilerplate(text)
        english_text == IF HasEnglishMarker(cleaned_text)
                        THEN SectionValue(EnglishCapture(cleaned_text))
                        ELSE <<>>
        khmer_text   == IF HasKhmerMarker(cleaned_text)
                        THEN SectionValue(KhmerCapture(cleaned_text))
                        ELSE <<>>
    IN  <<english_text, khmer_text>>

(***************************************************************************)
(* What the external collaborators may answer.                             *)
(***************************************************************************)
\* response.status_code of requests.get, or an exception raised by it
DownloadOutcomes ==
    {[raised |-> FALSE, status |-> st] : st \in {StatusOk, 404}}
        \cup {[raised |-> TRUE, status |-> 0]}

\* info["Pages"] of pdfinfo_from_path, or an exception raised by it
PageCounts == {0, 1, 2, MaxPagesCap, MaxPagesCap + 1}
PageCountOutcomes ==
    {[raised |-> FALSE, pages |-> n] : n \in PageCounts}
        \cup {[raised |-> TRUE, pages |-> 0]}

\* psutil.virtual_memory().percent
MemReadings == {RamThreshold - 1, RamThreshold}

\* response.text of the detection model
DetEnglish ==
    <<"E","n","g","l","i","s","h">>
DetKhmer ==
    <<"\f","k","h","m","e","r","U+00A0","\n">>
DetBoth ==
    <<"B","O","T","H">>
DetNone ==
    <<"N","o","n","e">>
DetOther ==
    <<"B","o","t","h",".">>
DetectResponses == {DetEnglish, DetKhmer, DetBoth, DetNone, DetOther}
\* an answer, or an exception raised inside the try of the function: before
\* the request (image.save, the prompt) or by the request itself
DetectOutcomes ==
    {[raised |-> FALSE, requested |-> TRUE, text |-> t] : t \in DetectResponses}
        \cup {[raised |-> TRUE, requested |-> r, text |-> <<>>] : r \in BOOLEAN}

\* response.text of the extraction model
OcrPair ==
    <<"E","n","g","l","i","s","h","_","T","e","x","t",":"," ","1","."," ",
      "H","e","l","l","o","\n","K","h","m","e","r","_","T","e","x","t",":",
      " ","S","u","o","s","d","e","y",US,"U+2028">>
OcrKhmerOnly ==
    <<"E","n","g","l","i","s","h","_","T","e","x","t",":"," ","n","o","n","e",
      "\n","K","h","m","e","r","_","T","e","x","t",":"," ","-"," ","a","b","c",
      FS,"k","h","m","e","r","\n">>
OcrLowerCase ==
    <<"-","-","-"," ","P","a","g","e"," ","1"," ","-","-","-","\n",
      "e","n","g","l","i","s","h","_","t","e","x","t",":"," ","O","k","\r","\n",
      "2",")"," ","D","a","t","a">>
OcrPlain ==
    <<"n","o"," ","t","e","x","t">>
OcrResponses == {OcrPair, OcrKhmerOnly, OcrLowerCase, OcrPlain}

\* str(e) of an exception raised inside ocr_image
Err500 ==
    <<"5","0","0"," ","i","n","t","e","r","n","a","l">>
Err429 ==
    <<"4","2","9"," ","l","i","m","i","t">>
ErrQuota ==
    <<"Q","u","o","t","a"," ","e","x","c","e","e","d","e","d">>
ErrEcho ==
    <<"b","a","d"," ","E","n","g","l","i","s","h","_","T","e","x","t",":"," ",
      "o","o","p","s">>
ErrorTexts == {Err500, Err429, ErrQuota, ErrEcho}

\* save_rows_to_csv: everything is written; open() raises; or open() has
\* truncated the file and a later write or the flush raises
SaveOutcomes == {"written", "not_opened", "torn"}

(***************************************************************************)
(* Pure parts of the page pipeline.                                        *)
(***************************************************************************)
\* download_pdf: True only for status 200
download_pdf(outcome) == ~outcome.raised /\ outcome.status = StatusOk

\* the page-count cap of process_multiple_pdfs_to_csv
ExceedsCap(pages) == pages > MaxPagesCap

\* detect_languages_in_image: the normalised answer, "None" on any exception
detect_languages_in_image(outcome) ==
    IF outcome.raised THEN VerdictNone ELSE Capitalize(Strip(outcome.text))

\* the language gate
LanguageAllowed(verdict) == verdict \in {VerdictEnglish, VerdictKhmer, VerdictBoth}

\* ocr_image: the test that turns an exception into the quota RuntimeError
IsQuotaError(error_text) ==
    Contains(error_text, Code429) \/ Contains(LowerStr(error_text), QuotaWord)

\* ocr_image: the value returned for any other exception
ErrorMsg(page_number, error_text) ==
    ErrorMsgHead \o IntToStr(page_number) \o ErrorMsgSep \o error_text

\* [clean_line(line) for line in text.splitlines() if clean_line(line)]
CleanedLines(text) ==
    LET lines == SplitLines(text)
    IN  SelectSeq([k \in 1..Len(lines) |-> clean_line(lines[k])],
                  LAMBDA l : l # <<>>)

\* a filter that keeps a line of exactly the minimum length
PassesLengthFilter_Inclusive(line) == Len(line) >= MinLineLen

\* the length filter of the two emission loops
PassesLengthFilter(line) == Len(line) > MinLineLen

\* for eng_line in eng_lines: ... ; the pair <<all_rows, row_id>> afterwards
RECURSIVE AppendEnglish(_, _, _)
AppendEnglish(rows, id, lines) ==
    IF lines = <<>> THEN <<rows, id>>
    ELSE IF PassesLengthFilter(Head(lines))
         THEN AppendEnglish(Append(rows, <<id, Head(lines), <<>>>>), id + 1, Tail(lines))
         ELSE AppendEnglish(rows, id, Tail(lines))

\* a Khmer loop that forgets row_id += 1
RECURSIVE AppendKhmer_NoIncrement(_, _, _)
AppendKhmer_NoIncrement(rows, id, lines) ==
    IF lines = <<>> THEN <<rows, id>>
    ELSE IF Len(Head(lines)) > MinLineLen
         THEN AppendKhmer_NoIncrement(Append(rows, <<id, <<>>, Head(lines)>>), id,
                                      Tail(lines))
         ELSE AppendKhmer_NoIncrement(rows, id, Tail(lines))

\* for khm_line in khm_lines: ... ; the pair <<all_rows, row_id>> afterwards
RECURSIVE AppendKhmer(_, _, _)
AppendKhmer(rows, id, lines) ==
    IF lines = <<>> THEN <<rows, id>>
    ELSE IF PassesLengthFilter(Head(lines))
         THEN AppendKhmer(Append(rows, <<id, <<>>, Head(lines)>>), id + 1, Tail(lines))
         ELSE AppendKhmer(rows, id, Tail(lines))

\* lines 244-258: extraction, cleaning and the two loops (the pair returned
\* by extract_english_khmer is bound once, as the assignment of line 244 does)
EmitPage(rows, id, text) ==
    LET Loops(sections) ==
            LET eng_lines == CleanedLines(sections[1])
                khm_lines == CleanedLines(sections[2])
                afterEng  == AppendEnglish(rows, id, eng_lines)
            IN  AppendKhmer(afterEng[1], afterEng[2], khm_lines)
    IN  CHOOSE result \in {Loops(sections) :
                              sections \in {extract_english_khmer(text)}} : TRUE

\* the header save_rows_to_csv writes
CsvHeader == <<"ID", "English_Text", "Khmer_Text">>

(***************************************************************************)
(* State of one call of process_multiple_pdfs_to_csv.                      *)
(*                                                                         *)
(* detected_lang and page_text are rebound by every iteration of the page  *)
(* loop before they are read, so the model forgets their values when an    *)
(* iteration ends.  page_img is different: the name keeps the image alive  *)
(* until it is deleted or rebound, so its binding is kept across           *)
(* iterations.                                                             *)
(***************************************************************************)
VARIABLES
    pc,               \* the statement the call is at
    n_docs,           \* len(pdf_urls)
    idx,              \* index of the document of the outer loop (1-based)
    max_pages,        \* info["Pages"] of the last page-count query
    i,                \* page number of the inner loop
    mem,              \* the last memory reading of wait_if_ram_high
    page_img,         \* whether the name page_img is bound to a page image
    detected_lang,    \* the verdict of detect_languages_in_image for this page
    page_text,        \* the value returned by ocr_image for this page
    all_rows,         \* the accumulated rows [row_id, english, khmer]
    row_id,           \* the next id
    csv_file,         \* the content of output_csv
    saved_rows,       \* the rows handed to the last save_rows_to_csv call
    save_count,       \* the number of save_rows_to_csv calls
    rows_before_page, \* len(all_rows) when the current page began
    ocr_outcome,      \* how the ocr_image call of this page ended
    detect_raised,    \* whether the detection request of this page raised
    quota_at,         \* the <<document, page>> whose OCR call hit the quota
    unpaced,          \* a remote request was issued and no delay followed yet
    prefix,           \* stand-alone extract_english_khmer call: text before
                      \* the English_Text: marker
    content_a,        \* the content after the English_Text: marker
    content_b,        \* the content after the Khmer_Text: marker
    raw_text,         \* the argument of the call
    extracted,        \* its result
    xpc               \* whether the call has returned

batch_vars == <<pc, n_docs, idx, max_pages, i, mem, page_img, detected_lang,
                page_text, all_rows, row_id, csv_file, saved_rows, save_count,
                rows_before_page, ocr_outcome, detect_raised, quota_at,
                unpaced>>
extract_vars == <<prefix, content_a, content_b, raw_text, extracted, xpc>>
vars == <<batch_vars, extract_vars>>

NoImage == "no_image"
Image == "image"

\* the content of output_csv: the complete records it holds, and whether a
\* piece of a further record follows them
NoFile == [exists |-> FALSE, records |-> <<>>, partial |-> FALSE]
FileOf(records, partial) == [exists |-> TRUE, records |-> records, partial |-> partial]
\* a file left at output_csv by an earlier run
OldFile == FileOf(<<CsvHeader, <<1, <<"O","l","d","d","a","t","a">>, <<>>>>>>, FALSE)
\* what open(output_csv, "w") and the writer put there when nothing fails
WrittenFile(rows) == FileOf(<<CsvHeader>> \o rows, FALSE)
NoPage == <<0, 0>>

\* the statements inside the page loop
PagePcs == {"ram_check", "ram_sleep", "convert", "detect", "lang_gate", "ocr",
            "emit", "release"}
\* the statements at which the call has ended
EndPcs == {"done", "crashed"}

BatchInit ==
    /\ pc = "start"
    /\ n_docs \in 0..NumDocs
    /\ idx = 0
    /\ max_pages = 0
    /\ i = 0
    /\ mem = 0
    /\ page_img = NoImage
    /\ detected_lang = <<>>
    /\ page_text = <<>>
    /\ all_rows = <<>>
    /\ row_id = 1
    /\ csv_file \in {NoFile, OldFile}
    /\ saved_rows = <<>>
    /\ save_count = 0
    /\ rows_before_page = 0
    /\ ocr_outcome = "none"
    /\ detect_raised = FALSE
    /\ quota_at = NoPage
    /\ unpaced = FALSE

ExtractIdle ==
    /\ prefix = <<>>
    /\ content_a = <<>>
    /\ content_b = <<>>
    /\ raw_text = <<>>
    /\ extracted = <<>>
    /\ xpc = "idle"

Init == BatchInit /\ ExtractIdle

\* save_rows_to_csv(rows, output_csv): header and rows; any exception is
\* logged and swallowed, and leaves the file as it was when open() raised, or
\* truncated to a leading part of the records when a write or the flush raised
save_rows_to_csv(rows) ==
    /\ \E outcome \in SaveOutcomes :
          CASE outcome = "written" -> csv_file' = WrittenFile(rows)
            [] outcome = "not_opened" -> csv_file' = csv_file
            [] outcome = "torn" ->
                 \E k \in 0..Len(rows), partial \in BOOLEAN :
                    csv_file' = FileOf(SubSeq(<<CsvHeader>> \o rows, 1, k), partial)
    /\ saved_rows' = rows
    /\ save_count' = save_count + 1

\* the next iteration of the outer loop, or the statement after it
GotoNextDoc ==
    IF idx < n_docs
    THEN idx' = idx + 1 /\ pc' = "download"
    ELSE idx' = idx /\ pc' = "final_save"

\* leaving the with-block of line 193 by `continue` or by the end of the page
\* loop: TemporaryDirectory.cleanup() runs outside any try, and when it raises
\* the call ends without a save
LeaveDocument ==
    \E cleanup_raised \in BOOLEAN :
       IF cleanup_raised
       THEN pc' = "crashed" /\ idx' = idx
       ELSE GotoNextDoc

\* the locals of one iteration of the page loop
ForgetPageLocals ==
    /\ detected_lang' = <<>>
    /\ page_text' = <<>>
    /\ ocr_outcome' = "none"
    /\ detect_raised' = FALSE

\* the next iteration of the page loop, or the next document
GotoNextPage ==
    /\ IF i < max_pages
       THEN i' = i + 1 /\ pc' = "ram_check" /\ idx' = idx
       ELSE i' = i /\ LeaveDocument
    /\ rows_before_page' = Len(all_rows)
    /\ ForgetPageLocals

\* lines 180-190: the default output name and the entry of the outer loop.
\* With output_csv None, os.makedirs("output", exist_ok=True) runs outside any
\* try: it raises when the directory is not there and cannot be made (so no
\* file of the default name exists), and the call ends without a save.
Start ==
    /\ pc = "start"
    /\ \E makedirs_raised \in BOOLEAN :
          IF makedirs_raised
          THEN csv_file = NoFile /\ pc' = "crashed" /\ idx' = idx
          ELSE GotoNextDoc
    /\ UNCHANGED <<n_docs, max_pages, i, mem, page_img, detected_lang, page_text,
                   all_rows, row_id, csv_file, saved_rows, save_count,
                   rows_before_page, ocr_outcome, detect_raised, quota_at, unpaced>>

\* lines 193-197: the temporary directory (made outside any try: when
\* tempfile.TemporaryDirectory() raises the call ends without a save), then
\* the download, `continue` on failure
Download ==
    /\ pc = "download"
    /\ \E tempdir_raised \in BOOLEAN :
          IF tempdir_raised
          THEN pc' = "crashed" /\ idx' = idx
          ELSE \E outcome \in DownloadOutcomes :
                  IF download_pdf(outcome)
                  THEN pc' = "page_count" /\ idx' = idx
                  ELSE LeaveDocument
    /\ UNCHANGED <<n_docs, max_pages, i, mem, page_img, detected_lang, page_text,
                   all_rows, row_id, csv_file, saved_rows, save_count,
                   rows_before_page, ocr_outcome, detect_raised, quota_at, unpaced>>

\* lines 199-201: the page count, not guarded by any try
PageCount ==
    /\ pc = "page_count"
    /\ \E outcome \in PageCountOutcomes :
          IF outcome.raised
          THEN pc' = "crashed" /\ max_pages' = max_pages
          ELSE pc' = "cap_check" /\ max_pages' = outcome.pages
    /\ UNCHANGED <<n_docs, idx, i, mem, page_img, detected_lang, page_text,
                   all_rows, row_id, csv_file, saved_rows, save_count,
                   rows_before_page, ocr_outcome, detect_raised, quota_at,
                   unpaced>>

\* lines 203-207: the cap (`continue` above it) and the entry of the page loop
CapCheck ==
    /\ pc = "cap_check"
    /\ IF ExceedsCap(max_pages)
       THEN i' = i /\ LeaveDocument
       ELSE IF max_pages >= 1
            THEN i' = 1 /\ pc' = "ram_check" /\ idx' = idx
            ELSE i' = i /\ LeaveDocument
    /\ rows_before_page' = Len(all_rows)
    /\ UNCHANGED <<n_docs, max_pages, mem, page_img, detected_lang, page_text,
                   all_rows, row_id, csv_file, saved_rows, save_count,
                   ocr_outcome, detect_raised, quota_at, unpaced>>

\* wait_if_ram_high: one reading of the memory usage; the call of line 210
\* is outside any try, so when psutil.virtual_memory() raises the call ends
\* without a save
RamCheck ==
    /\ pc = "ram_check"
    /\ \E reading_raised \in BOOLEAN :
          IF reading_raised
          THEN mem' = mem /\ pc' = "crashed"
          ELSE \E reading \in MemReadings :
                  /\ mem' = reading
                  /\ pc' = IF reading >= RamThreshold THEN "ram_sleep" ELSE "convert"
    /\ UNCHANGED <<n_docs, idx, max_pages, i, page_img, detected_lang, page_text,
                   all_rows, row_id, csv_file, saved_rows, save_count,
                   rows_before_page, ocr_outcome, detect_raised, quota_at, unpaced>>

\* wait_if_ram_high: time.sleep(wait_time), then the next reading
RamSleep ==
    /\ pc = "ram_sleep"
    /\ pc' = "ram_check"
    /\ UNCHANGED <<n_docs, idx, max_pages, i, mem, page_img, detected_lang,
                   page_text, all_rows, row_id, csv_file, saved_rows, save_count,
                   rows_before_page, ocr_outcome, detect_raised, quota_at, unpaced>>

\* lines 213-219: rasterize the page, `continue` when no image came back
Convert ==
    /\ pc = "convert"
    /\ \E ok \in BOOLEAN :
          IF ok
          THEN /\ page_img' = Image
               /\ pc' = "detect"
               /\ UNCHANGED <<idx, i, rows_before_page, detected_lang, page_text,
                              ocr_outcome, detect_raised>>
          ELSE /\ page_img' = page_img
               /\ GotoNextPage
    /\ UNCHANGED <<n_docs, max_pages, mem, all_rows, row_id, csv_file,
                   saved_rows, save_count, quota_at, unpaced>>

\* line 222: the detection call, with or without its request being issued
Detect ==
    /\ pc = "detect"
    /\ \E outcome \in DetectOutcomes :
          /\ detected_lang' = detect_languages_in_image(outcome)
          /\ detect_raised' = outcome.raised
          /\ unpaced' = (unpaced \/ outcome.requested)
    /\ pc' = "lang_gate"
    /\ UNCHANGED <<n_docs, idx, max_pages, i, mem, page_img, page_text,
                   all_rows, row_id, csv_file, saved_rows, save_count,
                   rows_before_page, ocr_outcome, quota_at>>

\* lines 224-226: the language gate, `continue` when the verdict is not allowed
LanguageGate ==
    /\ pc = "lang_gate"
    /\ IF LanguageAllowed(detected_lang)
       THEN /\ pc' = "ocr"
            /\ UNCHANGED <<idx, i, rows_before_page, detected_lang, page_text,
                           ocr_outcome, detect_raised>>
       ELSE GotoNextPage
    /\ UNCHANGED <<n_docs, max_pages, mem, page_img, all_rows, row_id, csv_file,
                   saved_rows, save_count, quota_at, unpaced>>

\* a handler that saves the rows but does not return
QuotaAbort_NoReturn ==
    /\ save_rows_to_csv(all_rows)
    /\ pc' = "emit"
    /\ ocr_outcome' = "quota"
    /\ quota_at' = <<idx, i>>
    /\ page_text' = OcrPair

\* lines 230-234: the quota RuntimeError is caught, the rows saved, the call
\* ends: by the `return`, or by an exception of the cleanup() that the return
\* runs on its way out of the with-block
QuotaAbort ==
    /\ save_rows_to_csv(all_rows)
    /\ \E cleanup_raised \in BOOLEAN :
          pc' = IF cleanup_raised THEN "crashed" ELSE "done"
    /\ ocr_outcome' = "quota"
    /\ quota_at' = <<idx, i>>
    /\ UNCHANGED page_text

\* ocr_image returned a text: the answer of the model or the error message
\* (only texts whose rows keep the run within MaxRows rows are drawn)
OcrReturns(text, outcome) ==
    /\ \E result \in {EmitPage(all_rows, row_id, text)} : Len(result[1]) <= MaxRows
    /\ page_text' = text
    /\ ocr_outcome' = outcome
    /\ pc' = "emit"
    /\ UNCHANGED <<csv_file, saved_rows, save_count, quota_at>>

\* line 228 with ocr_image (lines 100-125)
Ocr ==
    /\ pc = "ocr"
    /\ \/ \E text \in OcrResponses : OcrReturns(text, "ok")
       \/ \E error_text \in ErrorTexts :
             IF IsQuotaError(error_text)
             THEN QuotaAbort
             ELSE OcrReturns(ErrorMsg(i, error_text), "transient")
    /\ UNCHANGED <<n_docs, idx, max_pages, i, mem, page_img, detected_lang,
                   detect_raised, all_rows, row_id, rows_before_page, unpaced>>

\* lines 244-258: extract, clean, filter, append
EmitRows ==
    /\ pc = "emit"
    /\ \E result \in {EmitPage(all_rows, row_id, page_text)} :
          /\ all_rows' = result[1]
          /\ row_id' = result[2]
    /\ pc' = "release"
    /\ UNCHANGED <<n_docs, idx, max_pages, i, mem, page_img, detected_lang,
                   page_text, csv_file, saved_rows, save_count,
                   rows_before_page, ocr_outcome, detect_raised, quota_at, unpaced>>

\* lines 260-264: del page_img, gc.collect(), time.sleep(1), next page
ReleaseAndDelay ==
    /\ pc = "release"
    /\ page_img' = NoImage
    /\ unpaced' = FALSE
    /\ GotoNextPage
    /\ UNCHANGED <<n_docs, max_pages, mem, all_rows, row_id, csv_file,
                   saved_rows, save_count, quota_at>>

\* line 267: the save after the last document
FinalSave ==
    /\ pc = "final_save"
    /\ save_rows_to_csv(all_rows)
    /\ pc' = "done"
    /\ UNCHANGED <<n_docs, idx, max_pages, i, mem, page_img, detected_lang,
                   page_text, all_rows, row_id, rows_before_page,
                   ocr_outcome, detect_raised, quota_at, unpaced>>

BatchNext ==
    \/ Start
    \/ Download
    \/ PageCount
    \/ CapCheck
    \/ RamCheck
    \/ RamSleep
    \/ Convert
    \/ Detect
    \/ LanguageGate
    \/ Ocr
    \/ EmitRows
    \/ ReleaseAndDelay
    \/ FinalSave

Next == BatchNext /\ UNCHANGED extract_vars

Spec == Init /\ [][Next]_vars

(***************************************************************************)
(* A stand-alone call of extract_english_khmer on a text of the form       *)
(* prefix English_Text: content_a \n Khmer_Text: content_b.                *)
(***************************************************************************)
PreEmpty ==
    <<>>
PreChat ==
    <<"S","u","r","e",":","\n">>
PrePageLine ==
    <<"-","-","-"," ","P","a","g","e"," ","1"," ","-","-","-","\n">>
PreKhmerMarker ==
    <<"k","h","m","e","r","_","t","e","x","t",":"," ","x","\n">>
Prefixes == {PreEmpty, PreChat, PrePageLine, PreKhmerMarker}

EngHello ==
    <<" ","H","e","l","l","o">>
EngNone ==
    <<" ","n","o","n","e">>
EngList ==
    <<" ","1","."," ","H","i","\n","y","o"," ">>
EngPageLine ==
    <<" ","a","\n","-","-","-"," ","P","a","g","e"," ","2","\n","b">>
EngKhmerMarker ==
    <<" ","x"," ","K","h","m","e","r","_","T","e","x","t",":"," ","y">>
EngCrLf ==
    <<" ","a","\r","\n","b">>
EngFormFeed ==
    <<"U+00A0","a","\f","b",US>>
EngEmpty ==
    <<>>
ContentsA == {EngHello, EngNone, EngList, EngPageLine, EngKhmerMarker, EngCrLf,
              EngFormFeed, EngEmpty}

KhmSuosdey ==
    <<" ","S","u","o","s","d","e","y">>
KhmNone ==
    <<" ","N","o","n","e",US>>
KhmLines ==
    <<" ","k","1","\n","k","2","\n">>
KhmEnglishMarker ==
    <<" ","E","n","g","l","i","s","h","_","T","e","x","t",":"," ","z">>
KhmEmpty ==
    <<>>
ContentsB == {KhmSuosdey, KhmNone, KhmLines, KhmEnglishMarker, KhmEmpty}

\* the raw text the claim is about
ComposeText(p, a, b) == p \o EnglishMarker \o a \o <<"\n">> \o KhmerMarker \o b

InitExtract ==
    /\ BatchInit
    /\ n_docs = 0
    /\ csv_file = NoFile
    /\ prefix \in Prefixes
    /\ content_a \in ContentsA
    /\ content_b \in ContentsB
    /\ raw_text = ComposeText(prefix, content_a, content_b)
    /\ extracted = <<>>
    /\ xpc = "called"

ExtractCall ==
    /\ xpc = "called"
    /\ extracted' = extract_english_khmer(raw_text)
    /\ xpc' = "returned"
    /\ UNCHANGED <<batch_vars, prefix, content_a, content_b, raw_text>>

NextExtract == ExtractCall

SpecExtract == InitExtract /\ [][NextExtract]_vars

(***************************************************************************)
(* The claims.                                                             *)
(***************************************************************************)
AllowedVerdicts == {VerdictEnglish, VerdictKhmer, VerdictBoth}

\* s is a prefix of t
IsPrefix(s, t) == Len(s) <= Len(t) /\ SubSeq(t, 1, Len(s)) = s

\* the outer loop moves to the document after idx, or leaves the loop
MovesToNextDoc ==
    \/ idx < n_docs /\ idx' = idx + 1 /\ pc' = "download"
    \/ idx = n_docs /\ idx' = idx /\ pc' = "final_save"

\* the page loop moves to the page after i, or to the next document
MovesToNextPage ==
    \/ i < max_pages /\ i' = i + 1 /\ idx' = idx /\ pc' = "ram_check"
    \/ i = max_pages /\ i' = i /\ MovesToNextDoc

\* C1 as stated: once the quota was hit the output file holds exactly the rows
\* accumulated when page k began.
C1_ArtifactHoldsEarlierRows ==
    quota_at # NoPage =>
        /\ Len(all_rows) = rows_before_page
        /\ csv_file = WrittenFile(all_rows)

\* the file after a save of rows that failed: left alone, or a leading part of
\* the header and the rows
C1_LeftOrTorn(rows) ==
    \/ csv_file \in {NoFile, OldFile}
    \/ /\ csv_file.exists
       /\ Len(csv_file.records) <= Len(rows)
       /\ IsPrefix(csv_file.records, <<CsvHeader>> \o rows)
\* the state once the quota was hit
C1_AtAbort ==
    quota_at # NoPage =>
        /\ pc \in EndPcs
        /\ quota_at = <<idx, i>>
        /\ save_count = 1
        /\ saved_rows = all_rows
        /\ Len(all_rows) = rows_before_page
        /\ csv_file = WrittenFile(all_rows) \/ C1_LeftOrTorn(all_rows)
\* nothing moves after the abort; before it rows are only appended, by the
\* page being processed
C1_RowsOnlyAppended ==
    /\ quota_at # NoPage => UNCHANGED <<all_rows, saved_rows, csv_file, pc>>
    /\ all_rows' # all_rows =>
          /\ pc = "emit"
          /\ IsPrefix(all_rows, all_rows')
          /\ Len(all_rows) = rows_before_page
          /\ UNCHANGED <<idx, i>>
\* C1 (amended): when the OCR call of page k of document d hits the quota, the
\* rows handed to the one save_rows_to_csv call are the rows accumulated when
\* page k began: page k added none, the call has ended (by its return, or by
\* an exception of the temporary directory's cleanup after the save), and
\* until then rows were only ever appended, by the page being processed; no
\* statement runs after the abort.  The file holds
\* exactly these rows when the write succeeds; when it fails the file is left
\* as it was or holds a leading part of the header and these rows.
C1_QuotaAbortSavesEarlierRows == []C1_AtAbort /\ [][C1_RowsOnlyAppended]_vars
C1_Witness ==
    /\ pc = "done"
    /\ quota_at = <<2, 2>>
    /\ Len(saved_rows) = 2
    /\ csv_file = WrittenFile(saved_rows)

\* C2: the ids of the accumulated rows are 1, 2, ..., n in order and the
\* counter is n + 1, in every state of the run.
C2_IdsAreOneToN ==
    /\ \A k \in 1..Len(all_rows) : all_rows[k][1] = k
    /\ row_id = Len(all_rows) + 1
C2_Witness ==
    /\ idx = 2
    /\ pc = "release"
    /\ rows_before_page = 1
    /\ Len(all_rows) = 2

\* the page loop runs only for a document within the cap
C3_NoPageOfOversized == pc \in PagePcs => max_pages <= MaxPagesCap
\* what the cap step does with the count that was read
C3_CapStep ==
    pc = "cap_check" =>
        /\ max_pages > MaxPagesCap =>
              /\ MovesToNextDoc
              /\ UNCHANGED <<all_rows, row_id, page_img, unpaced>>
        /\ max_pages \in 1..MaxPagesCap =>
              /\ pc' = "ram_check"
              /\ i' = 1
              /\ idx' = idx
\* C3: no statement of the page loop is ever reached for a document of more
\* than 20 pages; such a document leaves the rows alone and the loop moves to
\* the next document; a document of exactly 20 pages enters the page loop.
C3_OversizedDocumentSkipped == []C3_NoPageOfOversized /\ [][C3_CapStep]_vars

\* the independent-line policy for one row
C4_RowFollowsPolicy(row) ==
    /\ (row[2] = <<>>) # (row[3] = <<>>)
    /\ \A f \in {row[2], row[3]} :
          f # <<>> => Len(f) > MinLineLen /\ clean_line(f) = f
\* C4: every accumulated row has exactly one of its two text fields non-empty,
\* and that field is a cleaned line (clean_line leaves it alone) longer than 3.
C4_RowsFollowIndependentLinePolicy ==
    \A k \in 1..Len(all_rows) : C4_RowFollowsPolicy(all_rows[k])
C4_Witness ==
    /\ pc = "release"
    /\ page_text = OcrKhmerOnly
    /\ Len(all_rows) = rows_before_page + 1
    /\ all_rows[Len(all_rows)][2] = <<>>

\* the verdict while at the OCR statement, and after a detection that raised
C5_VerdictAtOcr ==
    /\ pc = "ocr" => detected_lang \in AllowedVerdicts
    /\ detect_raised => detected_lang = VerdictNone
\* the steps around the language gate
C5_GateStep ==
    /\ pc' = "ocr" => pc = "lang_gate" /\ detected_lang \in AllowedVerdicts
    /\ pc = "detect" => pc' = "lang_gate"
    /\ (pc = "lang_gate" /\ detected_lang \notin AllowedVerdicts) =>
          /\ MovesToNextPage
          /\ UNCHANGED <<all_rows, row_id, save_count>>
\* C5: the OCR statement is entered only by the language gate with a verdict
\* English, Khmer or Both; a detection that raised gives the verdict None and
\* goes to the gate like any other; with any other verdict the gate adds no
\* row, ends nothing and moves to the next page.
C5_OcrOnlyAfterAllowedVerdict == []C5_VerdictAtOcr /\ [][C5_GateStep]_vars

\* C6: a failure other than the quota never ends the run: a run that ended
\* without hitting the quota went through every document and saved its rows.
C6_NonQuotaFailuresRecovered ==
    (pc \in EndPcs /\ quota_at = NoPage) =>
        /\ pc = "done"
        /\ idx = n_docs
        /\ save_count = 1
        /\ saved_rows = all_rows

\* C7: a page whose OCR call failed with a non-quota error adds no row and
\* leaves the id counter alone.
C7_TransientErrorAddsNoRow ==
    (pc = "release" /\ ocr_outcome = "transient") =>
        /\ Len(all_rows) = rows_before_page
        /\ row_id = rows_before_page + 1

\* C8 as stated: for prefix English_Text: A \n Khmer_Text: B the call returns
\* A and B, trimmed, for every choice of prefix, A and B.
C8_ReturnsTrimmedContents ==
    xpc = "returned" => extracted = <<Strip(content_a), Strip(content_b)>>

\* the trimmed content, or the empty text when it is the token none
TrimmedOrNone(content) ==
    IF LowerStr(Strip(content)) = NoneToken THEN <<>> ELSE Strip(content)

\* no marker before the English marker, no Khmer marker inside A, no
\* boilerplate line, no line break other than \n
C8_Plain ==
    /\ ~HasEnglishMarker(prefix)
    /\ ~HasKhmerMarker(prefix)
    /\ ~HasKhmerMarker(content_a)
    /\ \A k \in 1..Len(raw_text) : IsLineBreak(raw_text[k]) => raw_text[k] = "\n"
    /\ \A k \in 1..Len(SplitLines(raw_text)) : ~IsBoilerplate(SplitLines(raw_text)[k])

\* C8 (amended): on such a text without stray markers, boilerplate lines or
\* line breaks other than \n
\* the call returns A and B trimmed, except that a content that is the token
\* none (any case) is returned as the empty text.
C8_ReturnsContentsUnlessNone ==
    (xpc = "returned" /\ C8_Plain) =>
        extracted = <<TrimmedOrNone(content_a), TrimmedOrNone(content_b)>>
C8_Witness ==
    /\ xpc = "returned"
    /\ C8_Plain
    /\ content_a = EngNone
    /\ content_b = KhmLines
    /\ extracted[1] = <<>>
    /\ extracted[2] # <<>>

\* C9: a run that has ended called save_rows_to_csv exactly once, with all the
\* accumulated rows.
C9_ExactlyOneSave ==
    pc \in EndPcs => save_count = 1 /\ saved_rows = all_rows

\* C10: when a page begins (its memory check), the image of the page before
\* has been released and every remote request issued so far has been
\* followed by the inter-page delay.
C10_ReleasedAndPacedBeforeNextPage ==
    pc = "ram_check" => page_img = NoImage /\ ~unpaced
====
